---- MODULE Spec2Model ----
(***************************************************************************)
(* Model of protis.threed.lattice: the Lattice object (construction,       *)
(* get_harmonics, unit_grid) and the parallelogrammic / spherical          *)
(* truncation functions.                                                   *)
(*                                                                         *)
(* Representation.                                                         *)
(*  - A Lattice object is a record holding the set of attribute names      *)
(*    that have been assigned (`dict`) and the attribute values.           *)
(*  - None / an array of shape (3, n) is [isNone, cols]; cols is the       *)
(*    sequence of the n columns, each an integer triple.                   *)
(*  - A number passed as nh is the rational num/den (den > 0), so that     *)
(*    27, 27.0 (54/2) and 2.5 (5/2) are all inputs.                        *)
(*  - The reciprocal matrix 2*pi*inv(matrix).T is kept exactly as          *)
(*    (2*pi/det) * k with k the integer cofactor matrix of `matrix`;       *)
(*    squared lengths and dot products are kept in units of (2*pi/det)^2,  *)
(*    a positive factor common to every sort key.                          *)
(*  - The sort keys are compared exactly.  bk.argsort (default kind, not   *)
(*    stable) on the rounded float keys may leave candidates whose exact   *)
(*    keys are equal in any order, so a sorted array is kept as the        *)
(*    sequence of its runs: a run [from, take] stands for `take` distinct  *)
(*    elements of the set `from`, in any order.  A returned G denotes      *)
(*    every array obtained by listing its runs in turn.                    *)
(*  - An exception is the string naming its class and raise site; ""       *)
(*    means the call returned.                                             *)
(***************************************************************************)
EXTENDS Integers, Sequences, FiniteSets, TLC

VARIABLES lattice, outcome

vars == <<lattice, outcome>>

(***************************************************************************)
(* Bounds of the model.                                                    *)
(***************************************************************************)
MaxNh == 217

MaxNhLife == 2

MaxN == 2

(***************************************************************************)
(* Program constants.                                                      *)
(***************************************************************************)
DefaultDiscretization == 256

\* Smallest k for which float pow(k^3, 1/3) is below k (IEEE-754 double,
\* 1/3 rounded down): 1, 8 and 27 give 1.0, 2.0, 3.0; 64 gives
\* 3.9999999999999996, 125 gives 4.999999999999999, and so on.
FirstInexactRoot == 4

TruncationMethods == {"spherical", "parallelogrammic"}

(***************************************************************************)
(* Values.                                                                 *)
(***************************************************************************)
None == [isNone |-> TRUE, cols |-> <<>>]

Array(cols) == [isNone |-> FALSE, cols |-> cols]

Scalar(n) == [scalar |-> TRUE, items |-> <<n>>]

Tuple(t) == [scalar |-> FALSE, items |-> t]

Number(num, den) == [num |-> num, den |-> den]

NoNumber == Number(0, 1)

NewObject ==
    [dict |-> {}, truncation |-> "", basis_vectors |-> <<>>,
     discretization |-> <<>>, harmonics_array |-> None]

NoOutcome ==
    [op |-> "none", arg_truncation |-> "", arg_discretization |-> Tuple(<<>>),
     nh |-> NoNumber, raised |-> "", G |-> <<>>, nh_out |-> 0, shape |-> <<>>]

(***************************************************************************)
(* Inputs.                                                                 *)
(***************************************************************************)
Bases ==
    { << <<1, 0, 0>>, <<0, 1, 0>>, <<0, 0, 1>> >>,
      << <<1, 0, 0>>, <<1, 2, 0>>, <<0, 0, 3>> >>,
      << <<1, 1, 0>>, <<0, 1, 1>>, <<1, 0, 1>> >>,
      << <<2, -1, 0>>, <<0, 1, 1>>, <<1, 0, -1>> >> }

DiscretizationArgs ==
    {Scalar(n) : n \in 1..MaxN} \cup {Scalar(DefaultDiscretization)}
        \cup {Tuple(<<n, n + 1, n + 2>>) : n \in 1..MaxN}

TruncationArgs == TruncationMethods \cup {"hexagonal"}

HarmonicsArgs ==
    {None, Array(<<>>), Array(<< <<0, 0, 0>>, <<1, 0, 0>> >>)}

NhArgs(max) == {Number(n, d) : n \in (-2)..max, d \in {1, 2}}

(***************************************************************************)
(* Python / array-library helpers.                                         *)
(***************************************************************************)
\* utils.is_scalar
is_scalar(d) == d.scalar

\* int(x): truncation toward zero
PyInt(x) ==
    IF x.num >= 0 THEN x.num \div x.den ELSE -((-x.num) \div x.den)

\* int(nh) != nh
NotIntegerValued(x) == PyInt(x) * x.den # x.num

\* seq[i] for a Python index i on a sequence of length 3 (negative wraps)
PyIdx(i) == IF i < 0 THEN i + 3 + 1 ELSE i + 1

Run(S, k) == [from |-> S, take |-> k]

\* Number of elements of the first p runs
RECURSIVE CountTo(_, _)
CountTo(runs, p) ==
    IF p = 0 THEN 0 ELSE runs[p].take + CountTo(runs, p - 1)

\* Number of elements (columns) of an array kept as runs
NumColumns(runs) == CountTo(runs, Len(runs))

\* A given array as runs: every column is a run of its own
AsRuns(cols) == [p \in 1..Len(cols) |-> Run({cols[p]}, 1)]

\* seq[:k] on an array kept as runs
PySliceTo(s, k) ==
    LET n == NumColumns(s)
        stop == IF k >= 0 THEN (IF k < n THEN k ELSE n)
                ELSE (IF n + k > 0 THEN n + k ELSE 0)
        kept == {p \in 1..Len(s) : CountTo(s, p - 1) < stop}
    IN  [p \in 1..Cardinality(kept) |->
            IF CountTo(s, p) <= stop THEN s[p]
            ELSE Run(s[p].from, stop - CountTo(s, p - 1))]

\* bk.arange(a, b)
arange(a, b) == [p \in 1..(IF b > a THEN b - a ELSE 0) |-> a + p - 1]

\* bk.dot of two 3-vectors
dot(a, b) == a[1] * b[1] + a[2] * b[2] + a[3] * b[3]

\* bk.shape(a)[1]
shape1(a) == Len(a.cols)

\* exact floor of the real cube root
RECURSIVE CbrtFrom(_, _)
CbrtFrom(n, k) ==
    IF (k + 1) * (k + 1) * (k + 1) > n THEN k ELSE CbrtFrom(n, k + 1)

ICbrt(n) == CbrtFrom(n, 0)

\* int(nh ** (1 / 3)) in double precision, nh >= 0
PowThirdInt(n) ==
    LET k == ICbrt(n)
    IN  IF k * k * k = n /\ k >= FirstInexactRoot THEN k - 1 ELSE k

(***************************************************************************)
(* Lattice properties.                                                     *)
(***************************************************************************)
\* Lattice.matrix: array(basis_vectors).T
matrix(self) ==
    [r \in 1..3 |-> [c \in 1..3 |-> self.basis_vectors[c][r]]]

Det(m) ==
    m[1][1] * (m[2][2] * m[3][3] - m[2][3] * m[3][2])
    - m[1][2] * (m[2][1] * m[3][3] - m[2][3] * m[3][1])
    + m[1][3] * (m[2][1] * m[3][2] - m[2][2] * m[3][1])

\* cofactor matrix: inv(m).T = Cofactor(m) / Det(m)
Cofactor(m) ==
    LET a(r) == IF r = 1 THEN 2 ELSE 1
        b(r) == IF r = 3 THEN 2 ELSE 3
        minor(r, c) == m[a(r)][a(c)] * m[b(r)][b(c)] - m[a(r)][b(c)] * m[b(r)][a(c)]
    IN  [r \in 1..3 |-> [c \in 1..3 |->
            IF (r + c) % 2 = 0 THEN minor(r, c) ELSE -minor(r, c)]]

\* Lattice.reciprocal: 2 * pi * inv(matrix).T = (2 * pi / det) * k
reciprocal(self) ==
    [k |-> Cofactor(matrix(self)), det |-> Det(matrix(self))]

(***************************************************************************)
(* Truncation.                                                             *)
(***************************************************************************)
\* bk.meshgrid(xG, xG, xG, indexing="ij") followed by flatten of each grid:
\* three parallel arrays over the flat positions 1..n^3
meshgrid_flat(xG) ==
    LET n == Len(xG)
    IN  << [f \in 1..(n * n * n) |-> xG[((f - 1) \div (n * n)) + 1]],
           [f \in 1..(n * n * n) |-> xG[(((f - 1) \div n) % n) + 1]],
           [f \in 1..(n * n * n) |-> xG[((f - 1) % n) + 1]] >>

\* One pass of the accumulation loop body for loop index i
Gl2Term(G, Lk, u2, i, f) ==
    LET udot == dot(Lk[PyIdx(i)], Lk[PyIdx(i + 1)])
    IN  G[PyIdx(i)][f] * G[PyIdx(i)][f] * u2[PyIdx(i)]
        + G[PyIdx(i + 1)][f] * G[PyIdx(i + 1)][f] * u2[PyIdx(i + 1)]
        + 2 * G[PyIdx(i)][f] * G[PyIdx(i + 1)][f] * udot

\* Variant: range(0, 2), the wrapping pair (2, 0) left out.
LoopRange_NoWrap == 0..1

\* range(-1, 2)
LoopRange == (-1)..1

RECURSIVE SumOver(_, _, _, _, _)
SumOver(S, G, Lk, u2, f) ==
    IF S = {} THEN 0
    ELSE LET i == CHOOSE x \in S : TRUE
         IN  Gl2Term(G, Lk, u2, i, f) + SumOver(S \ {i}, G, Lk, u2, f)

\* Gl2 = 0; for i in range(-1, 2): Gl2 += ...
Gl2Array(G, Lk) ==
    LET u2 == [i \in 1..3 |-> dot(Lk[i], Lk[i])]
    IN  [f \in DOMAIN G[1] |-> SumOver(LoopRange, G, Lk, u2, f)]

\* The distinct keys below (above) a key value
KeysBelow(keys, v) == {keys[x] : x \in {y \in DOMAIN keys : keys[y] < v}}

KeysAbove(keys, v) == {keys[x] : x \in {y \in DOMAIN keys : keys[y] > v}}

\* Variant: keys in descending order.
argsort_Descending(keys) ==
    LET vals == {keys[x] : x \in DOMAIN keys}
    IN  [p \in 1..Cardinality(vals) |->
            LET v == CHOOSE w \in vals : Cardinality(KeysAbove(keys, w)) = p - 1
                run == {x \in DOMAIN keys : keys[x] = v}
            IN  Run(run, Cardinality(run))]

\* bk.argsort(keys): the positions in ascending order of key, positions of
\* equal key forming one run
argsort(keys) ==
    LET vals == {keys[x] : x \in DOMAIN keys}
    IN  [p \in 1..Cardinality(vals) |->
            LET v == CHOOSE w \in vals : Cardinality(KeysBelow(keys, w)) = p - 1
                run == {x \in DOMAIN keys : keys[x] = v}
            IN  Run(run, Cardinality(run))]

parallelogramic_truncation(nh, Lk) ==
    IF nh < 0
    THEN \* nh ** (1 / 3) is complex; int() of it raises
         [raised |-> "TypeError: int() of complex", G |-> <<>>, nh |-> 0]
    ELSE LET root == PowThirdInt(nh)
             NGroot == IF root % 2 = 0 THEN root - 1 ELSE root
             M == NGroot \div 2
             xG == arange(-M, NGroot - M)
             G == meshgrid_flat(xG)
             Gl2 == Gl2Array(G, Lk.k)
             jsort == argsort(Gl2)
             Gsorted == [p \in 1..Len(jsort) |->
                            Run({<<G[1][j], G[2][j], G[3][j]>> : j \in jsort[p].from},
                                jsort[p].take)]
             nh2 == NGroot * NGroot * NGroot
         IN  [raised |-> "", G |-> PySliceTo(Gsorted, nh2), nh |-> nh2]

\* Variant: the spherical mode falls through to the implemented truncation.
spherical_truncation_Computes(nh, Lk) ==
    parallelogramic_truncation(nh, Lk)

spherical_truncation(nh, Lk) ==
    [raised |-> "NotImplementedError", G |-> <<>>, nh |-> 0]

(***************************************************************************)
(* Lattice methods.                                                        *)
(***************************************************************************)
\* Variant: the truncation attribute is assigned before it is validated.
Lattice_init_AssignFirst(basis_vectors, discretization, truncation, harmonics_array) ==
    LET disc == IF is_scalar(discretization)
                THEN <<discretization.items[1], discretization.items[1]>>
                ELSE discretization.items
        full == [dict |-> {"truncation", "basis_vectors",
                           "discretization", "harmonics_array"},
                 truncation |-> truncation,
                 basis_vectors |-> basis_vectors,
                 discretization |-> disc,
                 harmonics_array |-> harmonics_array]
    IN  IF truncation \notin TruncationMethods
        THEN [self |-> [NewObject EXCEPT !.dict = {"truncation"},
                                         !.truncation = truncation],
              raised |-> "ValueError: Unknown truncation method"]
        ELSE [self |-> full, raised |-> ""]

Lattice_init(basis_vectors, discretization, truncation, harmonics_array) ==
    LET disc == IF is_scalar(discretization)
                THEN <<discretization.items[1], discretization.items[1]>>
                ELSE discretization.items
    IN  IF truncation \notin TruncationMethods
        THEN [self |-> NewObject, raised |-> "ValueError: Unknown truncation method"]
        ELSE [self |-> [dict |-> {"truncation", "basis_vectors",
                                  "discretization", "harmonics_array"},
                        truncation |-> truncation,
                        basis_vectors |-> basis_vectors,
                        discretization |-> disc,
                        harmonics_array |-> harmonics_array],
              raised |-> ""]

\* Variant: the integer check is made before the harmonics_array override.
get_harmonics_IntFirst(self, nh) ==
    IF NotIntegerValued(nh)
    THEN [raised |-> "ValueError: nh must be integer.", G |-> <<>>, nh |-> 0]
    ELSE IF ~self.harmonics_array.isNone
    THEN [raised |-> "", G |-> AsRuns(self.harmonics_array.cols),
          nh |-> shape1(self.harmonics_array)]
    ELSE IF self.truncation = "spherical"
    THEN spherical_truncation(PyInt(nh), reciprocal(self))
    ELSE parallelogramic_truncation(PyInt(nh), reciprocal(self))

\* Variant: the truncation mode is dispatched before the integer check.
get_harmonics_DispatchFirst(self, nh) ==
    IF ~self.harmonics_array.isNone
    THEN [raised |-> "", G |-> AsRuns(self.harmonics_array.cols),
          nh |-> shape1(self.harmonics_array)]
    ELSE IF self.truncation = "spherical"
    THEN spherical_truncation(PyInt(nh), reciprocal(self))
    ELSE IF NotIntegerValued(nh)
    THEN [raised |-> "ValueError: nh must be integer.", G |-> <<>>, nh |-> 0]
    ELSE parallelogramic_truncation(PyInt(nh), reciprocal(self))

get_harmonics(self, nh) ==
    IF ~self.harmonics_array.isNone
    THEN [raised |-> "", G |-> AsRuns(self.harmonics_array.cols),
          nh |-> shape1(self.harmonics_array)]
    ELSE IF NotIntegerValued(nh)
    THEN [raised |-> "ValueError: nh must be integer.", G |-> <<>>, nh |-> 0]
    ELSE IF self.truncation = "spherical"
    THEN spherical_truncation(PyInt(nh), reciprocal(self))
    ELSE parallelogramic_truncation(PyInt(nh), reciprocal(self))

unit_grid(self) ==
    IF Len(self.discretization) # 3
    THEN [raised |-> "ValueError: unpack (expected 3)", shape |-> <<>>]
    ELSE [raised |-> "",
          shape |-> <<3, self.discretization[1], self.discretization[2],
                      self.discretization[3]>>]

(***************************************************************************)
(* State machine.                                                          *)
(***************************************************************************)
Constructed == lattice.dict # {}

Init ==
    /\ lattice = NewObject
    /\ outcome = NoOutcome

Construct(basis_vectors, discretization, truncation, harmonics_array) ==
    \E r \in {Lattice_init(basis_vectors, discretization, truncation, harmonics_array)} :
        /\ lattice' = r.self
        /\ outcome' = [NoOutcome EXCEPT !.op = "__init__",
                                        !.arg_truncation = truncation,
                                        !.arg_discretization = discretization,
                                        !.raised = r.raised]

GetHarmonics(nh) ==
    /\ Constructed
    /\ \E self \in {lattice} : \E r \in {get_harmonics(self, nh)} :
           outcome' = [NoOutcome EXCEPT !.op = "get_harmonics",
                                        !.nh = nh,
                                        !.raised = r.raised,
                                        !.G = r.G,
                                        !.nh_out = r.nh]
    /\ UNCHANGED lattice

UnitGrid ==
    /\ Constructed
    /\ \E self \in {lattice} : \E r \in {unit_grid(self)} :
           outcome' = [NoOutcome EXCEPT !.op = "unit_grid",
                                        !.raised = r.raised,
                                        !.shape = r.shape]
    /\ UNCHANGED lattice

Next ==
    \/ \E b \in Bases, d \in DiscretizationArgs, t \in TruncationArgs,
          h \in HarmonicsArgs : Construct(b, d, t, h)
    \/ \E nh \in NhArgs(MaxNhLife) : GetHarmonics(nh)
    \/ UnitGrid

Spec == Init /\ [][Next]_vars

(***************************************************************************)
(* Truncation applied once to each constructed lattice and each request.   *)
(***************************************************************************)
InitTrunc ==
    \E b \in Bases, t \in TruncationMethods, h \in HarmonicsArgs :
        /\ lattice = Lattice_init(b, Scalar(DefaultDiscretization), t, h).self
        /\ outcome = [NoOutcome EXCEPT !.op = "__init__",
                                        !.arg_truncation = t,
                                        !.arg_discretization =
                                            Scalar(DefaultDiscretization)]

NextTrunc ==
    /\ outcome.op = "__init__"
    /\ \E nh \in NhArgs(MaxNh) : GetHarmonics(nh)

SpecTrunc == InitTrunc /\ [][NextTrunc]_vars

(***************************************************************************)
(* Vocabulary of the properties.                                           *)
(***************************************************************************)
Called == outcome.op = "get_harmonics"

Returned == Called /\ outcome.raised = ""

\* A call that reached the parallelogrammic truncation with an integer value
ParCall ==
    /\ Called
    /\ lattice.harmonics_array.isNone
    /\ lattice.truncation = "parallelogrammic"
    /\ ~NotIntegerValued(outcome.nh)

Requested == PyInt(outcome.nh)

\* The triples that occur in the returned G, and how many columns it has
Columns == UNION {outcome.G[p].from : p \in 1..Len(outcome.G)}

ColumnCount == NumColumns(outcome.G)

\* Every returned array has the triple g as its first column
FirstColumnIs(g) ==
    Len(outcome.G) >= 1 /\ outcome.G[1].from = {g} /\ outcome.G[1].take >= 1

\* Every returned array lists each triple of Columns exactly once
EachColumnOnce ==
    /\ \A p \in 1..Len(outcome.G) : outcome.G[p].take = Cardinality(outcome.G[p].from)
    /\ Cardinality(Columns) = ColumnCount

\* floor(n^(1/3)) over the reals, decremented if even
ExactOddRoot(n) == IF ICbrt(n) % 2 = 0 THEN ICbrt(n) - 1 ELSE ICbrt(n)

Cube(lo, hi) == {<<a, b, c>> : a \in lo..hi, b \in lo..hi, c \in lo..hi}

PairForm(g, Lk, pr) ==
    g[pr[1]] * g[pr[1]] * dot(Lk[pr[1]], Lk[pr[1]])
    + g[pr[2]] * g[pr[2]] * dot(Lk[pr[2]], Lk[pr[2]])
    + 2 * g[pr[1]] * g[pr[2]] * dot(Lk[pr[1]], Lk[pr[2]])

\* The quadratic form of a triple g, summed over the three cyclic axis pairs
QuadraticForm(g, Lk) ==
    PairForm(g, Lk, <<3, 1>>) + PairForm(g, Lk, <<1, 2>>) + PairForm(g, Lk, <<2, 3>>)

LatticeGl2(g) == QuadraticForm(g, reciprocal(lattice).k)

\* The values the quadratic form takes on each run of the returned G
FormValues ==
    CHOOSE vals \in {[p \in 1..Len(outcome.G) |->
                        {QuadraticForm(g, Lk) : g \in outcome.G[p].from}] :
                     Lk \in {reciprocal(lattice).k}} : TRUE

Orthogonal(b) ==
    dot(b[1], b[2]) = 0 /\ dot(b[2], b[3]) = 0 /\ dot(b[3], b[1]) = 0

(***************************************************************************)
(* Properties.                                                             *)
(***************************************************************************)
\* C1: whenever get_harmonics returns (G, nh_actual), nh_actual is the number
\* of columns of G and is not negative.
C1_CountIsColumnCount ==
    Returned => outcome.nh_out = ColumnCount /\ outcome.nh_out >= 0

\* C2: with a harmonics_array supplied at construction, get_harmonics returns
\* that array and its column count for every nh and either truncation mode,
\* and raises nothing.
C2_OverrideReturnsArray ==
    (Called /\ ~lattice.harmonics_array.isNone) =>
        /\ outcome.raised = ""
        /\ outcome.G = [p \in 1..Len(lattice.harmonics_array.cols) |->
                            [from |-> {lattice.harmonics_array.cols[p]}, take |-> 1]]
        /\ outcome.nh_out = Len(lattice.harmonics_array.cols)

C2_Witness ==
    /\ Called
    /\ ~lattice.harmonics_array.isNone
    /\ lattice.truncation = "spherical"
    /\ NotIntegerValued(outcome.nh)
    /\ outcome.raised = ""
    /\ outcome.nh_out = 2

\* C3 (as stated): get_harmonics on a spherical lattice always ends in an
\* error, whatever the other constructor arguments.
C3_SphericalAlwaysFails ==
    (Called /\ lattice.truncation = "spherical") => outcome.raised # ""

\* C3 (amended): get_harmonics on a spherical lattice constructed without a
\* harmonics_array always ends in an error: the non-integer error for a
\* non-integer nh, NotImplementedError otherwise.
C3_SphericalFailsWithoutOverride ==
    (Called /\ lattice.truncation = "spherical" /\ lattice.harmonics_array.isNone) =>
        outcome.raised = IF NotIntegerValued(outcome.nh)
                         THEN "ValueError: nh must be integer."
                         ELSE "NotImplementedError"

C3_Witness ==
    /\ Called
    /\ lattice.truncation = "spherical"
    /\ lattice.harmonics_array.isNone
    /\ Requested >= 1
    /\ outcome.raised = "NotImplementedError"

\* C4: for parallelogrammic truncation and integer nh >= 1 the first harmonic
\* is (0,0,0); its quadratic form is 0 and that of every other returned
\* triple is strictly positive.
C4_ZeroTripleFirst ==
    (ParCall /\ Requested >= 1) =>
        /\ outcome.raised = ""
        /\ FirstColumnIs(<<0, 0, 0>>)
        /\ LatticeGl2(<<0, 0, 0>>) = 0
        /\ \A p \in 2..Len(outcome.G) :
               /\ <<0, 0, 0>> \notin outcome.G[p].from
               /\ \A v \in FormValues[p] : v > 0

C4_Witness ==
    /\ ParCall
    /\ ~Orthogonal(reciprocal(lattice).k)
    /\ ColumnCount = 27
    /\ FirstColumnIs(<<0, 0, 0>>)

\* C5: a scalar discretization N is stored as the 3-tuple (N, N, N).
C5_ScalarBroadcastsToThree ==
    (outcome.op = "__init__" /\ outcome.raised = "" /\ outcome.arg_discretization.scalar) =>
        lattice.discretization =
            <<outcome.arg_discretization.items[1], outcome.arg_discretization.items[1],
              outcome.arg_discretization.items[1]>>

\* C6: construction with an unrecognised truncation fails with the invalid
\* argument error and leaves no attribute of the lattice assigned.
C6_UnknownTruncationRejected ==
    (outcome.op = "__init__" /\ outcome.arg_truncation \notin {"spherical", "parallelogrammic"}) =>
        /\ outcome.raised = "ValueError: Unknown truncation method"
        /\ lattice.dict = {}

C6_Witness ==
    /\ outcome.op = "__init__"
    /\ outcome.arg_truncation = "hexagonal"
    /\ outcome.arg_discretization.scalar
    /\ outcome.raised # ""

\* C7: without a harmonics_array, get_harmonics raises the non-integer error
\* exactly when nh is not integer-valued, in either truncation mode (so
\* before the mode is dispatched).
C7_IntegerCheckBeforeDispatch ==
    (Called /\ lattice.harmonics_array.isNone) =>
        (outcome.raised = "ValueError: nh must be integer."
            <=> outcome.nh.num % outcome.nh.den # 0)

C7_Witness ==
    /\ Called
    /\ lattice.harmonics_array.isNone
    /\ lattice.truncation = "spherical"
    /\ outcome.nh.num % outcome.nh.den # 0
    /\ outcome.raised = "ValueError: nh must be integer."

\* C8: for parallelogrammic truncation and integer nh >= 1, G is a
\* permutation of the cube [-M, M]^3 where M = NGroot // 2 and NGroot is
\* floor(nh^(1/3)) decremented if even.
C8_PermutationOfExactCube ==
    (ParCall /\ Requested >= 1) =>
        LET NGroot == ExactOddRoot(Requested)
            M == NGroot \div 2
        IN  /\ outcome.raised = ""
            /\ ColumnCount = NGroot * NGroot * NGroot
            /\ Columns = Cube(-M, NGroot - M - 1)
            /\ EachColumnOnce

\* C9: for parallelogrammic truncation the returned harmonics are in
\* ascending order of the quadratic form over the cyclic pairs (2,0), (0,1),
\* (1,2): any two columns that can be consecutive (two of one run, or one of
\* a run and one of the next) are in that order.
C9_AscendingGl2 ==
    (ParCall /\ outcome.raised = "") =>
        \A vals \in {FormValues} :
            /\ \A p \in 1..Len(vals) : \A v, w \in vals[p] : v <= w
            /\ \A p \in 1..(Len(vals) - 1) :
                   \A v \in vals[p], w \in vals[p + 1] : v <= w

C9_Witness ==
    /\ ParCall
    /\ ~Orthogonal(reciprocal(lattice).k)
    /\ ColumnCount = 125
    /\ \E p \in 1..Len(outcome.G) : outcome.G[p].take >= 2
    /\ \E p \in 1..(Len(outcome.G) - 1) :
          \E v \in FormValues[p], w \in FormValues[p + 1] : v < w

\* C10: for parallelogrammic truncation and integer nh >= 1, nh_actual is the
\* largest odd cube k^3 with k <= floor(nh^(1/3)), and 1 <= nh_actual <= nh.
C10_LargestOddCube ==
    (ParCall /\ Requested >= 1) =>
        /\ outcome.raised = ""
        /\ outcome.nh_out =
              ExactOddRoot(Requested) * ExactOddRoot(Requested) * ExactOddRoot(Requested)
        /\ 1 <= outcome.nh_out
        /\ outcome.nh_out <= Requested

====
